---------------------------- MODULE Spec2Model ----------------------------
(***************************************************************************)
(* Model of Cindir PointCloud Manager (cindir_pointcloud_manager.py):      *)
(*   - PointCloudProcessor: load_pointcloud, estimate_normals,             *)
(*     remove_outliers, downsample, create_mesh, save_results;             *)
(*   - CindirPointCloudManager: the Tk host with its two worker threads.   *)
(* The geometry library (open3d), laspy and numpy are collaborators: a     *)
(* call into them either returns a value drawn from a small set or raises. *)
(* A return value of "raise" stands for an exception leaving the method.   *)
(***************************************************************************)
EXTENDS Integers, Sequences, FiniteSets, TLC

(***************************************************************************)
(* Bounds of the model.                                                    *)
(***************************************************************************)
MaxPoints == 2
MaxVerts == 4
MaxFaces == 1
MaxClock == 2
MaxWorkers == 2

\* Python None; every optional field holds None or a record
None == [none |-> TRUE]

Min(a, b) == IF a <= b THEN a ELSE b

Range(s) == { s[i] : i \in 1..Len(s) }

(***************************************************************************)
(* File paths are sequences of characters.                                 *)
(***************************************************************************)


Paths ==
    { <<"a", ".", "l", "a", "s">>,
      <<"a", ".", "L", "A", "Z">>,
      <<"a", ".", "P", "l", "Y">>,
      <<"a", ".", "p", "c", "d">>,
      <<"a", ".", "X", "Y", "Z">>,
      <<"a", ".", "x", "y", "z">>,
      <<"a", ".", "t", "x", "t">>,
      <<"a", ".", "p", "l", "y", "x">>,
      <<".", "p", "l", "y">>,
      <<"p", "l", "y">>,
      <<"a", ".", "p", "l", "y", "/", "b">>,
      <<"a", ".", "x", "/", "b", ".", "P", "C", "D">>,
      <<"a", ".", "l", "a", "s", ".">>,
      <<"a", ".", "p", "c", "d", "/">> }

\* str.lower() on the characters that occur in Paths
LowerChar(c) ==
    CASE c = "A" -> "a"
      [] c = "C" -> "c"
      [] c = "D" -> "d"
      [] c = "L" -> "l"
      [] c = "P" -> "p"
      [] c = "S" -> "s"
      [] c = "X" -> "x"
      [] c = "Y" -> "y"
      [] c = "Z" -> "z"
      [] OTHER -> c

\* variant: the suffix is compared as written
Lower_CaseSensitive(s) == s

Lower(s) == [ i \in 1..Len(s) |-> LowerChar(s[i]) ]

\* positions of character c in s
Positions(s, c) == { i \in 1..Len(s) : s[i] = c }

SetMax(S) == CHOOSE x \in S : \A y \in S : y <= x

\* os.path.basename: what follows the last slash
Basename(p) ==
    LET sl == Positions(p, "/")
    IN  IF sl = {} THEN p ELSE SubSeq(p, SetMax(sl) + 1, Len(p))

\* pathlib drops trailing slashes when it parses a path
RECURSIVE StripSlashes(_)
StripSlashes(p) ==
    IF Len(p) > 1 /\ p[Len(p)] = "/"
    THEN StripSlashes(SubSeq(p, 1, Len(p) - 1))
    ELSE p

\* pathlib: Path(p).name, the final path component
PathName(p) == Basename(StripSlashes(p))

\* pathlib: Path(p).suffix -- the last dot of the name starts the suffix
\* unless it is the first or the last character of the name
Suffix(p) ==
    LET name == PathName(p)
        dots == Positions(name, ".")
    IN  IF dots = {} THEN <<>>
        ELSE LET i == SetMax(dots)
             IN  IF 1 < i /\ i < Len(name)
                 THEN SubSeq(name, i, Len(name))
                 ELSE <<>>

FileExt(p) == Lower(Suffix(p))

\* the reader load_pointcloud dispatches to; "none" is the else branch
Reader(ext) ==
    CASE ext = <<".", "l", "a", "s">> -> "_load_las"
      [] ext = <<".", "l", "a", "z">> -> "_load_las"
      [] ext = <<".", "p", "l", "y">> -> "_load_ply"
      [] ext = <<".", "p", "c", "d">> -> "_load_pcd"
      [] ext = <<".", "x", "y", "z">> -> "_load_xyz"
      [] OTHER -> "none"

\* _load_las and _load_xyz build the cloud from coordinates (and colours)
\* only; the library readers behind _load_ply and _load_pcd return whatever
\* the file stores, normals included.
ReaderMayYieldNormals(reader) == reader \in {"_load_ply", "_load_pcd"}

(***************************************************************************)
(* Mesh reconstruction and density pruning (create_mesh).                  *)
(***************************************************************************)
DensityValues == {1, 2}

\* the q of np.quantile(densities, 0.1), as the fraction QuantileNum/QuantileDen
QuantileNum == 1
QuantileDen == 10

\* k-th smallest element (k = 1..Len(d)) of the sequence d
KthSmallest(d, k) ==
    CHOOSE v \in Range(d) :
        /\ Cardinality({ i \in 1..Len(d) : d[i] < v }) < k
        /\ k <= Cardinality({ i \in 1..Len(d) : d[i] <= v })

\* np.quantile(d, q) with numpy's default linear interpolation, multiplied
\* by QuantileDen so that it stays an integer: the virtual index is
\* q * (n - 1); the value is interpolated between its two neighbours in
\* the sorted array.
QuantileScaled(d) ==
    LET n  == Len(d)
        h  == QuantileNum * (n - 1)
        lo == h \div QuantileDen
        fr == h % QuantileDen
        hi == Min(lo + 1, n - 1)
        a  == KthSmallest(d, lo + 1)
        b  == KthSmallest(d, hi + 1)
    IN  QuantileDen * a + fr * (b - a)

\* variant: the comparison is <=
VerticesToRemove_Inclusive(d) ==
    [ i \in 1..Len(d) |-> QuantileDen * d[i] <= QuantileScaled(d) ]

\* densities < np.quantile(densities, 0.1): the boolean mask, one entry per
\* vertex
VerticesToRemove(d) ==
    [ i \in 1..Len(d) |-> QuantileDen * d[i] < QuantileScaled(d) ]

\* the increasing sequence of the elements of a set of naturals
RECURSIVE SortedSeq(_)
SortedSeq(S) ==
    IF S = {} THEN <<>>
    ELSE LET m == SetMax(S) IN Append(SortedSeq(S \ {m}), m)

\* TriangleMesh.remove_vertices_by_mask: drops the masked vertices, drops
\* every triangle that references one of them, and renumbers the triangles
\* that remain.
RemoveVerticesByMask(m, mask) ==
    LET keep     == { i \in 1..Len(m.vertices) : ~mask[i] }
        newIdx(i) == Cardinality({ j \in keep : j <= i })
        kept(t)  == t[1] \in keep /\ t[2] \in keep /\ t[3] \in keep
        renum(t) == <<newIdx(t[1]), newIdx(t[2]), newIdx(t[3])>>
        ts       == SelectSeq(m.triangles, kept)
        ks       == SortedSeq(keep)
    IN  [vertices  |-> [ i \in 1..Len(ks) |-> m.vertices[ks[i]] ],
         triangles |-> [ i \in 1..Len(ts) |-> renum(ts[i]) ]]

\* the faces of a triangle strip over nv vertices, as index triples
FaceTriples(nv) == { <<a, a + 1, a + 2>> : a \in 1..(nv - 2) }

\* the sequences of at most k faces, each face once, in strip order
FaceLists(nv, k) ==
    { ts \in UNION { [1..n -> FaceTriples(nv)] : n \in 0..k } :
        \A i \in 1..(Len(ts) - 1) : ts[i][1] < ts[i + 1][1] }

\* what create_from_point_cloud_poisson may return: a mesh whose vertex i
\* is named i, and one density per vertex
Reconstructions ==
    UNION { { [mesh |-> [vertices |-> [ i \in 1..nv |-> i ], triangles |-> ts],
               densities |-> d] :
                 d \in [1..nv -> DensityValues],
                 ts \in FaceLists(nv, MaxFaces) } :
            nv \in 0..MaxVerts }

VARIABLES
    point_cloud,    \* None or [n |-> number of points, hasNormals |-> BOOLEAN]
    normals,        \* None or [len |-> length of the array]
    mesh,           \* None or [vertices |-> Seq, triangles |-> Seq of triples]
    last,           \* the most recent call: operation, result, library calls
    loadedCount,    \* history: points of the cloud at the last successful load
    normalsFresh,   \* history: estimate_normals succeeded since the last load
    meshFromHeld,   \* history: the held mesh was reconstructed from the held points
    pc,             \* position inside save_results, "idle" outside it
    timestamp,      \* the token the latest save_results call read from the clock
    disk,           \* the output directory: token -> the files named with it
    file_path_var,  \* host: text of the path entry
    current_file,   \* host: None or the imported file's name
    processing,     \* host: the processing flag
    process_button, \* host: state of the "Start Processing" button
    status_var,     \* host: status line
    progress,       \* host: the progress bar is running
    sleeping,       \* host: worker threads inside time.sleep, by callback
    afterQueue      \* host: callbacks handed to root.after, not yet run

procVars == <<point_cloud, normals, mesh, last, loadedCount, normalsFresh,
              meshFromHeld, pc, timestamp, disk>>

saveVars == <<pc, timestamp, disk>>

uiVars == <<file_path_var, current_file, processing, process_button,
            status_var, progress, sleeping, afterQueue>>

vars == <<procVars, uiVars>>

\* values of datetime.now().strftime("%Y%m%d_%H%M%S")
Timestamps == 1..MaxClock

\* the three files save_results names with one token; None: no such file
NoFiles == [processed_cloud |-> None, mesh |-> None, metadata |-> None]

\* the completion callbacks of the two worker threads
Callbacks == {"import_complete", "processing_complete"}

Call(op, ret, lib, arg) == [op |-> op, ret |-> ret, lib |-> lib, arg |-> arg]

NumPoints(pcd) == pcd.n

Init ==
    /\ point_cloud = None
    /\ normals = None
    /\ mesh = None
    /\ last = Call("__init__", "None", <<>>, <<>>)
    /\ loadedCount = 0
    /\ normalsFresh = FALSE
    /\ meshFromHeld = FALSE
    /\ pc = "idle"
    /\ timestamp = 0
    /\ disk = [ t \in Timestamps |-> NoFiles ]
    /\ file_path_var = <<>>
    /\ current_file = None
    /\ processing = FALSE
    /\ process_button = "disabled"
    /\ status_var = "Ready to import pointcloud..."
    /\ progress = FALSE
    /\ sleeping = [ cb \in Callbacks |-> 0 ]
    /\ afterQueue = <<>>

(***************************************************************************)
(* load_pointcloud(file_path).  readOk: the reader returns; n, hn: what    *)
(* the file holds.                                                         *)
(***************************************************************************)
load_pointcloud(file_path, readOk, n, hn) ==
    LET file_ext == FileExt(file_path)
        reader == Reader(file_ext)
    IN  IF reader = "none"
        THEN \* ValueError raised and caught
             /\ last' = Call("load_pointcloud", "False", <<>>, file_path)
             /\ UNCHANGED <<point_cloud, normals, mesh, loadedCount, normalsFresh, meshFromHeld>>
        ELSE IF ~readOk
        THEN \* the reader raised; caught by the except clause
             /\ last' = Call("load_pointcloud", "False", <<reader>>, file_path)
             /\ UNCHANGED <<point_cloud, normals, mesh, loadedCount, normalsFresh, meshFromHeld>>
        ELSE /\ point_cloud' = [n |-> n,
                                hasNormals |-> hn /\ ReaderMayYieldNormals(reader)]
             /\ last' = Call("load_pointcloud", "True", <<reader>>, file_path)
             /\ loadedCount' = n
             /\ normalsFresh' = FALSE
             /\ meshFromHeld' = FALSE
             /\ UNCHANGED <<normals, mesh>>

(***************************************************************************)
(* estimate_normals(radius, max_nn)                                        *)
(***************************************************************************)
estimate_normals(libOk) ==
    IF point_cloud = None
    THEN /\ last' = Call("estimate_normals", "False", <<>>, <<>>)
         /\ UNCHANGED <<point_cloud, normals, mesh, loadedCount, normalsFresh, meshFromHeld>>
    ELSE IF ~libOk
    THEN /\ last' = Call("estimate_normals", "raise", <<"estimate_normals">>, <<>>)
         /\ UNCHANGED <<point_cloud, normals, mesh, loadedCount, normalsFresh, meshFromHeld>>
    ELSE \* the library fills the cloud's normals in place
         /\ point_cloud' = [point_cloud EXCEPT !.hasNormals = TRUE]
         /\ normals' = [len |-> NumPoints(point_cloud)]
         /\ last' = Call("estimate_normals", "True", <<"estimate_normals">>, <<>>)
         /\ normalsFresh' = TRUE
         /\ UNCHANGED <<mesh, loadedCount, meshFromHeld>>

(***************************************************************************)
(* remove_outliers(nb_neighbors, std_ratio).  kept: size of the filtered   *)
(* subset the library returns.                                             *)
(***************************************************************************)
remove_outliers(libOk, kept) ==
    IF point_cloud = None
    THEN /\ last' = Call("remove_outliers", "False", <<>>, <<>>)
         /\ UNCHANGED <<point_cloud, normals, mesh, loadedCount, normalsFresh, meshFromHeld>>
    ELSE IF ~libOk
    THEN /\ last' = Call("remove_outliers", "raise", <<"remove_statistical_outlier">>, <<>>)
         /\ UNCHANGED <<point_cloud, normals, mesh, loadedCount, normalsFresh, meshFromHeld>>
    ELSE /\ kept <= NumPoints(point_cloud)
         /\ point_cloud' = [point_cloud EXCEPT !.n = kept]
         /\ last' = Call("remove_outliers", "True", <<"remove_statistical_outlier">>, <<>>)
         /\ meshFromHeld' = (meshFromHeld /\ kept = NumPoints(point_cloud))
         /\ UNCHANGED <<normals, mesh, loadedCount, normalsFresh>>

(***************************************************************************)
(* downsample(voxel_size).  kept: number of non-empty voxels.              *)
(***************************************************************************)
downsample(libOk, kept) ==
    IF point_cloud = None
    THEN /\ last' = Call("downsample", "False", <<>>, <<>>)
         /\ UNCHANGED <<point_cloud, normals, mesh, loadedCount, normalsFresh, meshFromHeld>>
    ELSE IF ~libOk
    THEN /\ last' = Call("downsample", "raise", <<"voxel_down_sample">>, <<>>)
         /\ UNCHANGED <<point_cloud, normals, mesh, loadedCount, normalsFresh, meshFromHeld>>
    ELSE /\ kept <= NumPoints(point_cloud)
         /\ (NumPoints(point_cloud) > 0 => kept > 0)
         /\ point_cloud' = [point_cloud EXCEPT !.n = kept]
         /\ last' = Call("downsample", "True", <<"voxel_down_sample">>, <<>>)
         /\ meshFromHeld' = (meshFromHeld /\ kept = NumPoints(point_cloud))
         /\ UNCHANGED <<normals, mesh, loadedCount, normalsFresh>>

(***************************************************************************)
(* create_mesh(depth, width, scale).  poissonOk: the reconstruction        *)
(* returns; recon: what it returns; pruneOk: the quantile and the vertex   *)
(* removal return.                                                         *)
(***************************************************************************)
\* variant: only the cloud is tested
MissingPrerequisite_CloudOnly == point_cloud = None

\* the guard of create_mesh: the early return False
MissingPrerequisite == point_cloud = None \/ normals = None

\* the reconstruction works from the points and the normals stored in the
\* cloud it is given; it raises when the cloud carries none
PoissonReturns(pcd, poissonOk) == poissonOk /\ pcd.hasNormals /\ pcd.n > 0

create_mesh(poissonOk, recon, pruneOk) ==
    IF MissingPrerequisite
    THEN /\ last' = Call("create_mesh", "False", <<>>, <<>>)
         /\ UNCHANGED <<point_cloud, normals, mesh, loadedCount, normalsFresh, meshFromHeld>>
    ELSE IF ~PoissonReturns(point_cloud, poissonOk)
    THEN \* the tuple assignment is never reached
         /\ last' = Call("create_mesh", "raise", <<"poisson">>, <<>>)
         /\ UNCHANGED <<point_cloud, normals, mesh, loadedCount, normalsFresh, meshFromHeld>>
    ELSE IF ~pruneOk
    THEN \* self.mesh is already bound to the reconstruction
         /\ mesh' = recon.mesh
         /\ last' = Call("create_mesh", "raise", <<"poisson", "quantile">>, recon)
         /\ meshFromHeld' = TRUE
         /\ UNCHANGED <<point_cloud, normals, loadedCount, normalsFresh>>
    ELSE /\ mesh' = RemoveVerticesByMask(recon.mesh, VerticesToRemove(recon.densities))
         /\ last' = Call("create_mesh", "True",
                         <<"poisson", "quantile", "remove_vertices_by_mask">>, recon)
         /\ meshFromHeld' = TRUE
         /\ UNCHANGED <<point_cloud, normals, loadedCount, normalsFresh>>

(***************************************************************************)
(* save_results(output_dir), one action per statement that touches the     *)
(* directory.  No other method runs in between: the processor is used from *)
(* one thread.                                                             *)
(***************************************************************************)
\* "original_points": getattr(self, 'original_point_count', 0); no method
\* ever sets the attribute
original_points == 0

\* the dict the method dumps as JSON
Metadata(ts) ==
    [processing_date |-> ts,
     original_points |-> original_points,
     final_points    |-> IF point_cloud # None THEN NumPoints(point_cloud) ELSE 0,
     mesh_vertices   |-> IF mesh # None THEN Len(mesh.vertices) ELSE 0,
     mesh_faces      |-> IF mesh # None THEN Len(mesh.triangles) ELSE 0]

\* variant: the clock is read again for every file name
NameToken_ReadAgain(now) == now

\* the token a file name is built from: the local read once at line 133
NameToken(now) == timestamp

\* variant: the metadata is written first
StepAfter_MetadataFirst(p) ==
    CASE p = "idle"                -> "write_metadata"
      [] p = "write_metadata"      -> "write_point_cloud"
      [] p = "write_point_cloud"   -> "write_triangle_mesh"
      [] p = "write_triangle_mesh" -> "idle"

\* the order of the statements of save_results, as positions
StepAfter(p) ==
    CASE p = "idle"                -> "write_point_cloud"
      [] p = "write_point_cloud"   -> "write_triangle_mesh"
      [] p = "write_triangle_mesh" -> "write_metadata"
      [] p = "write_metadata"      -> "idle"

\* the call's record after the statement at position pc has written a file:
\* which file, under which token, and what the writer returned
Written(kind, ts, ok) ==
    [last EXCEPT !.lib = Append(@, <<kind, ts, ok>>),
                 !.ret = IF StepAfter(pc) = "idle" THEN "True" ELSE "running"]

Skipped == [last EXCEPT !.ret = IF StepAfter(pc) = "idle" THEN "True" ELSE "running"]

\* datetime.now() never reads less than it read before
ClockReadings == { t \in Timestamps : t >= timestamp }

\* lines 130-133: the directory is created, the clock is read once.  Files
\* named with an older token can no longer be reached by any later call and
\* are dropped from the model.
save_results(now) ==
    /\ pc = "idle"
    /\ now \in ClockReadings
    /\ timestamp' = now
    /\ disk' = IF now = timestamp THEN disk ELSE [ t \in Timestamps |-> NoFiles ]
    /\ pc' = StepAfter(pc)
    /\ last' = Call("save_results", "running", <<>>, <<>>)
    /\ UNCHANGED <<point_cloud, normals, mesh, loadedCount, normalsFresh, meshFromHeld>>

\* lines 135-139.  A PointCloud or TriangleMesh object is truthy, so the
\* tests are tests for None; the writer's boolean result is dropped.
save_point_cloud(now, writeOk) ==
    /\ pc = "write_point_cloud"
    /\ now \in ClockReadings
    /\ IF point_cloud # None
       THEN LET ts == NameToken(now)
            IN  /\ last' = Written("processed_cloud", ts, writeOk)
                /\ disk' = IF writeOk
                           THEN [disk EXCEPT ![ts].processed_cloud =
                                                 [points |-> NumPoints(point_cloud)]]
                           ELSE disk
       ELSE /\ last' = Skipped
            /\ UNCHANGED disk
    /\ pc' = StepAfter(pc)
    /\ UNCHANGED <<point_cloud, normals, mesh, loadedCount, normalsFresh,
                   meshFromHeld, timestamp>>

\* lines 141-145
save_triangle_mesh(now, writeOk) ==
    /\ pc = "write_triangle_mesh"
    /\ now \in ClockReadings
    /\ IF mesh # None
       THEN LET ts == NameToken(now)
            IN  /\ last' = Written("mesh", ts, writeOk)
                /\ disk' = IF writeOk
                           THEN [disk EXCEPT ![ts].mesh =
                                                 [vertices |-> Len(mesh.vertices),
                                                  faces |-> Len(mesh.triangles)]]
                           ELSE disk
       ELSE /\ last' = Skipped
            /\ UNCHANGED disk
    /\ pc' = StepAfter(pc)
    /\ UNCHANGED <<point_cloud, normals, mesh, loadedCount, normalsFresh,
                   meshFromHeld, timestamp>>

\* lines 147-156: the dict is built and dumped
save_metadata(now) ==
    /\ pc = "write_metadata"
    /\ now \in ClockReadings
    /\ LET ts == NameToken(now)
       IN  /\ disk' = [disk EXCEPT ![ts].metadata = Metadata(timestamp)]
           /\ last' = [Written("metadata", ts, TRUE) EXCEPT !.arg = Metadata(timestamp)]
    /\ pc' = StepAfter(pc)
    /\ UNCHANGED <<point_cloud, normals, mesh, loadedCount, normalsFresh,
                   meshFromHeld, timestamp>>

\* a pipeline stage runs while no save_results is under way
Stage(A) == pc = "idle" /\ A /\ UNCHANGED <<saveVars, uiVars>>

\* a step of save_results
Save(A) == A /\ UNCHANGED uiVars

(***************************************************************************)
(* The pipeline stages over every path of Paths.                           *)
(***************************************************************************)
\* two reconstructions of MaxVerts vertices and MaxFaces faces: all
\* densities equal, or the first vertex below the others
SampleReconstructions ==
    { [mesh |-> [vertices  |-> [ i \in 1..MaxVerts |-> i ],
                 triangles |-> [ i \in 1..MaxFaces |->
                                   <<MaxVerts - 2, MaxVerts - 1, MaxVerts>> ]],
       densities |-> [ i \in 1..MaxVerts |-> IF i = 1 THEN d ELSE 2 ]] :
      d \in DensityValues }

Next ==
    \/ \E p \in Paths, ok \in BOOLEAN, n \in 0..MaxPoints, hn \in BOOLEAN :
           Stage(load_pointcloud(p, ok, n, hn))
    \/ \E ok \in BOOLEAN : Stage(estimate_normals(ok))
    \/ \E ok \in BOOLEAN, k \in 0..MaxPoints : Stage(remove_outliers(ok, k))
    \/ \E ok \in BOOLEAN, k \in 0..MaxPoints : Stage(downsample(ok, k))
    \/ \E ok \in BOOLEAN, r \in SampleReconstructions, pk \in BOOLEAN :
           Stage(create_mesh(ok, r, pk))

Spec == Init /\ [][Next]_vars

(***************************************************************************)
(* Reconstruction and pruning of a one-point cloud, over every             *)
(* reconstruction of Reconstructions.                                      *)
(***************************************************************************)
MeshPaths == { <<"a", ".", "P", "l", "Y">> }

NextMesh ==
    \/ \E p \in MeshPaths, hn \in BOOLEAN :
           Stage(load_pointcloud(p, TRUE, 1, hn))
    \/ Stage(estimate_normals(TRUE))
    \/ \E r \in Reconstructions, pk \in BOOLEAN :
           Stage(create_mesh(TRUE, r, pk))

SpecMesh == Init /\ [][NextMesh]_vars

(***************************************************************************)
(* The pipeline followed by save_results.  Stage calls whose library call  *)
(* raises before any assignment leave everything save_results reads as it  *)
(* was; they are taken in Spec, not here.                                  *)
(***************************************************************************)
SavePaths == { <<"a", ".", "P", "l", "Y">> }

NextSave ==
    \/ \E p \in SavePaths, n \in 0..MaxPoints :
           Stage(load_pointcloud(p, TRUE, n, FALSE))
    \/ Stage(estimate_normals(TRUE))
    \/ \E k \in 0..MaxPoints : Stage(remove_outliers(TRUE, k))
    \/ \E k \in 0..MaxPoints : Stage(downsample(TRUE, k))
    \/ \E ok \in BOOLEAN, r \in SampleReconstructions, pk \in BOOLEAN :
           Stage(create_mesh(ok, r, pk))
    \/ \E now \in Timestamps : Save(save_results(now))
    \/ \E now \in Timestamps, ok \in BOOLEAN : Save(save_point_cloud(now, ok))
    \/ \E now \in Timestamps, ok \in BOOLEAN : Save(save_triangle_mesh(now, ok))
    \/ \E now \in Timestamps : Save(save_metadata(now))

SpecSave == Init /\ [][NextSave]_vars

(***************************************************************************)
(* CindirPointCloudManager: the Tk host.  Button commands and callbacks    *)
(* run on the main loop, one at a time; each worker thread sleeps and then *)
(* hands its completion callback to root.after.  A message box is shown    *)
(* and dismissed within the handler that opens it.                         *)
(***************************************************************************)
\* what the user may pick or leave in the path entry; <<>> is the empty string
UIPaths == { <<>>, <<"a", ".", "p", "l", "y">>, <<"d", "/">> }

\* workers started whose completion callback has not run yet
InFlight == sleeping["import_complete"] + sleeping["processing_complete"]
            + Len(afterQueue)

\* threading.Thread(target=worker, daemon=True).start()
StartWorker(cb) == sleeping' = [sleeping EXCEPT ![cb] = @ + 1]

browse_file(filename) ==
    /\ file_path_var' = IF filename # <<>> THEN filename ELSE file_path_var
    /\ UNCHANGED <<current_file, processing, process_button, status_var,
                   progress, sleeping, afterQueue>>

\* command of the "Import PointCloud" button
import_pointcloud ==
    IF file_path_var = <<>>
    THEN \* messagebox.showerror, return
         UNCHANGED uiVars
    ELSE /\ InFlight < MaxWorkers
         /\ status_var' = "Importing point cloud file..."
         /\ progress' = TRUE
         /\ StartWorker("import_complete")
         /\ UNCHANGED <<file_path_var, current_file, processing, process_button,
                        afterQueue>>

import_complete ==
    /\ progress' = FALSE
    /\ status_var' = "Point cloud imported successfully! Ready for processing."
    /\ process_button' = "normal"
    /\ current_file' = [name |-> Basename(file_path_var)]
    /\ UNCHANGED <<file_path_var, processing, sleeping>>

\* command of the "Start Processing" button; Tk does not invoke the command
\* of a disabled button
start_processing ==
    /\ process_button = "normal"
    /\ IF current_file = None \/ current_file.name = <<>>
       THEN \* messagebox.showerror, return
            UNCHANGED uiVars
       ELSE /\ InFlight < MaxWorkers
            /\ process_button' = "disabled"
            /\ processing' = TRUE
            /\ status_var' = "Processing point cloud with advanced algorithms..."
            /\ progress' = TRUE
            /\ StartWorker("processing_complete")
            /\ UNCHANGED <<file_path_var, current_file, afterQueue>>

processing_complete ==
    /\ processing' = FALSE
    /\ progress' = FALSE
    /\ status_var' = "Processing completed successfully!"
    /\ process_button' = "normal"
    /\ UNCHANGED <<file_path_var, current_file, sleeping>>

\* import_worker / processing_worker: time.sleep ends, root.after(0, cb)
worker_done(cb) ==
    /\ sleeping[cb] > 0
    /\ sleeping' = [sleeping EXCEPT ![cb] = @ - 1]
    /\ afterQueue' = Append(afterQueue, cb)
    /\ UNCHANGED <<file_path_var, current_file, processing, process_button,
                   status_var, progress>>

\* the main loop runs the oldest pending callback
run_after ==
    /\ afterQueue # <<>>
    /\ afterQueue' = Tail(afterQueue)
    /\ IF Head(afterQueue) = "import_complete"
       THEN import_complete
       ELSE processing_complete

\* a handler of the host runs; the processor is not touched
Host(A) == A /\ UNCHANGED procVars

NextUI ==
    \/ \E f \in UIPaths : Host(browse_file(f))
    \/ Host(import_pointcloud)
    \/ Host(start_processing)
    \/ \E cb \in Callbacks : Host(worker_done(cb))
    \/ Host(run_after)

SpecUI == Init /\ [][NextUI]_vars

(***************************************************************************)
(* Properties.                                                             *)
(***************************************************************************)
Returned(op, ret) == last.op = op /\ last.ret = ret

\* C1: create_mesh succeeds (returns True and sets a mesh) only if
\* estimate_normals has succeeded after the most recent successful
\* load_pointcloud.
C1_MeshOnlyAfterNormalsOfHeldCloud ==
    (Returned("create_mesh", "True") /\ mesh # None) => normalsFresh

\* C2: create_mesh called while point_cloud is None or normals is None
\* returns False, makes no library call and leaves point_cloud, normals and
\* mesh as they were.
C2_CreateMeshWithoutPrerequisite ==
    [][ (last'.op = "create_mesh" /\ (point_cloud = None \/ normals = None))
        => /\ last'.ret = "False"
           /\ last'.lib = <<>>
           /\ point_cloud' = point_cloud
           /\ normals' = normals
           /\ mesh' = mesh ]_vars

\* a cloud is held, normals were never estimated, and create_mesh refused
C2_Witness ==
    /\ Returned("create_mesh", "False")
    /\ point_cloud # None
    /\ normals = None

\* C3: remove_outliers, estimate_normals and downsample return False and
\* change nothing when no point cloud is loaded, and return True when one is
\* loaded.
C3_StagesNoOpWithoutCloudElseTrue ==
    [][ last'.op \in {"remove_outliers", "estimate_normals", "downsample"}
        => IF point_cloud = None
           THEN /\ last'.ret = "False"
                /\ point_cloud' = point_cloud
                /\ normals' = normals
                /\ mesh' = mesh
           ELSE last'.ret = "True" ]_vars

\* The format each path of Paths has by the rule of the specification: the
\* extension is what follows the last dot of the final path component, and
\* letter case does not count.
FormatOf(p) ==
    CASE p = <<"a", ".", "l", "a", "s">>                          -> "_load_las"
      [] p = <<"a", ".", "L", "A", "Z">>                          -> "_load_las"
      [] p = <<"a", ".", "P", "l", "Y">>                          -> "_load_ply"
      [] p = <<"a", ".", "p", "c", "d">>                          -> "_load_pcd"
      [] p = <<"a", ".", "X", "Y", "Z">>                          -> "_load_xyz"
      [] p = <<"a", ".", "x", "y", "z">>                          -> "_load_xyz"
      [] p = <<"a", ".", "x", "/", "b", ".", "P", "C", "D">>      -> "_load_pcd"
      [] p = <<"a", ".", "p", "c", "d", "/">>                     -> "_load_pcd"
      [] OTHER                                                    -> "none"

\* C4: load_pointcloud of a path with an unrecognized extension returns
\* False, invokes no reader and leaves point_cloud, normals and mesh
\* unchanged; a path with a recognized extension, in any letter case, is
\* handed to the reader of its format.
C4_LoadDispatchByExtension ==
    [][ last'.op = "load_pointcloud"
        => IF FormatOf(last'.arg) = "none"
           THEN /\ last'.ret = "False"
                /\ last'.lib = <<>>
                /\ point_cloud' = point_cloud
                /\ normals' = normals
                /\ mesh' = mesh
           ELSE last'.lib = <<FormatOf(last'.arg)>> ]_vars

\* a mixed-case .PlY path was read by the PLY reader while a mesh was held
C4_Witness ==
    /\ Returned("load_pointcloud", "True")
    /\ last.arg = <<"a", ".", "P", "l", "Y">>
    /\ last.lib = <<"_load_ply">>
    /\ mesh # None

\* C5: the metadata written by save_results has original_points equal to
\* the number of points the held cloud had when it was loaded.
C5_OriginalPointsIsLoadedCount ==
    (Returned("save_results", "True") /\ point_cloud # None)
        => last.arg.original_points = loadedCount

\* C6: whenever the processor holds a normals array, its length is the
\* number of points of the point cloud it holds.
C6_NormalsLengthIsPointCount ==
    (normals # None /\ point_cloud # None) => normals.len = NumPoints(point_cloud)

\* entries of the write log of the running or finished save_results call
LogOf(kind) == { i \in 1..Len(last.lib) : last.lib[i][1] = kind }

\* C7: a finished save_results call has written the processed_cloud file
\* iff a cloud is held, the mesh file iff a mesh is held, and exactly one
\* metadata file, all under one timestamp token; the counts of an absent
\* artifact are 0, so a call made with nothing held writes only a metadata
\* file with four zero counts.
C7_FilesWrittenBySave ==
    Returned("save_results", "True") =>
        LET md == last.arg
        IN  /\ Cardinality(LogOf("processed_cloud")) = IF point_cloud # None THEN 1 ELSE 0
            /\ Cardinality(LogOf("mesh")) = IF mesh # None THEN 1 ELSE 0
            /\ Cardinality(LogOf("metadata")) = 1
            /\ \A i \in 1..Len(last.lib) : last.lib[i][2] = md.processing_date
            /\ disk[md.processing_date].metadata = md
            /\ (point_cloud = None => md.final_points = 0 /\ md.original_points = 0)
            /\ (mesh = None => md.mesh_vertices = 0 /\ md.mesh_faces = 0)
            /\ (point_cloud = None /\ mesh = None =>
                    /\ Len(last.lib) = 1
                    /\ md.original_points + md.final_points
                         + md.mesh_vertices + md.mesh_faces = 0)

\* a call made while a cloud was held and no mesh has finished
C7_Witness ==
    /\ Returned("save_results", "True")
    /\ point_cloud # None
    /\ mesh = None
    /\ last.arg.final_points > 0

\* the metadata file is the file the call wrote last
MetadataJustWritten ==
    /\ last.op = "save_results"
    /\ last.lib # <<>>
    /\ last.lib[Len(last.lib)][1] = "metadata"

\* the write of every held artifact comes before the metadata write
WritesPrecedeMetadata ==
    /\ point_cloud # None => \E i \in LogOf("processed_cloud") : i < Len(last.lib)
    /\ mesh # None => \E i \in LogOf("mesh") : i < Len(last.lib)

\* C8 as stated: when the metadata file is written, every held cloud or
\* mesh was written before it, and the metadata's final_points,
\* mesh_vertices and mesh_faces are the counts of the cloud and mesh files
\* on disk under that token.
C8_MetadataMatchesFilesOnDisk ==
    MetadataJustWritten =>
        LET files == disk[last.lib[Len(last.lib)][2]]
            md == files.metadata
        IN  /\ WritesPrecedeMetadata
            /\ point_cloud # None =>
                   /\ files.processed_cloud # None
                   /\ files.processed_cloud.points = md.final_points
            /\ mesh # None =>
                   /\ files.mesh # None
                   /\ files.mesh.vertices = md.mesh_vertices
                   /\ files.mesh.faces = md.mesh_faces

\* C8 amended: when the metadata file is written, the write of every held
\* cloud or mesh was issued before it, the metadata's counts are those of
\* the cloud and mesh held in memory, and they are the counts of the file on
\* disk under that token for every file whose write succeeded.
C8_MetadataMatchesWrittenFiles ==
    MetadataJustWritten =>
        LET files == disk[last.lib[Len(last.lib)][2]]
            md == files.metadata
        IN  /\ WritesPrecedeMetadata
            /\ md.final_points = IF point_cloud # None THEN NumPoints(point_cloud) ELSE 0
            /\ md.mesh_vertices = IF mesh # None THEN Len(mesh.vertices) ELSE 0
            /\ md.mesh_faces = IF mesh # None THEN Len(mesh.triangles) ELSE 0
            /\ \A i \in LogOf("processed_cloud") :
                   last.lib[i][3] =>
                       /\ files.processed_cloud # None
                       /\ files.processed_cloud.points = md.final_points
            /\ \A i \in LogOf("mesh") :
                   last.lib[i][3] =>
                       /\ files.mesh # None
                       /\ files.mesh.vertices = md.mesh_vertices
                       /\ files.mesh.faces = md.mesh_faces

\* cloud and mesh held; the cloud write failed, the mesh write succeeded,
\* then the metadata was written
C8_Witness ==
    /\ MetadataJustWritten
    /\ Len(last.lib) = 3
    /\ last.lib[1] = <<"processed_cloud", timestamp, FALSE>>
    /\ last.lib[2] = <<"mesh", timestamp, TRUE>>
    /\ disk[timestamp].metadata.final_points > 0

\* the densities in nondecreasing order
SortedDensities(d) ==
    CHOOSE s \in [1..Len(d) -> DensityValues] :
        /\ \A i \in 1..(Len(d) - 1) : s[i] <= s[i + 1]
        /\ \A v \in DensityValues :
               Cardinality({ i \in 1..Len(d) : s[i] = v })
                 = Cardinality({ i \in 1..Len(d) : d[i] = v })

\* ten times the 10th percentile of d (linear interpolation between the
\* order statistics around position (n - 1) / 10); d is not empty
TenthPercentileTimes10(d) ==
    LET s  == SortedDensities(d)
        lo == ((Len(d) - 1) \div 10) + 1
        hi == Min(lo + 1, Len(d))
    IN  10 * s[lo] + ((Len(d) - 1) % 10) * (s[hi] - s[lo])

\* the vertices whose density is not below the 10th percentile
NotBelowTenthPercentile(d) ==
    { i \in 1..Len(d) : 10 * d[i] >= TenthPercentileTimes10(d) }

\* C9: after a successful create_mesh the retained vertices are exactly the
\* reconstructed vertices whose density is not below the 10th percentile of
\* all densities, in their order; there are no more of them than before
\* pruning; every face has indices valid in the pruned vertex list and is a
\* reconstructed face over retained vertices.
C9_PruningKeepsDenseVertices ==
    Returned("create_mesh", "True") =>
        LET r == last.arg
            nv == Len(mesh.vertices)
        IN  /\ Range(mesh.vertices) = NotBelowTenthPercentile(r.densities)
            /\ \A i \in 1..(nv - 1) : mesh.vertices[i] < mesh.vertices[i + 1]
            /\ nv <= Len(r.mesh.vertices)
            /\ \A j \in 1..Len(mesh.triangles) :
                   LET t == mesh.triangles[j]
                   IN  /\ \A k \in 1..3 : t[k] \in 1..nv
                       /\ <<mesh.vertices[t[1]], mesh.vertices[t[2]],
                            mesh.vertices[t[3]]>> \in Range(r.mesh.triangles)

\* the sparsest vertex was pruned and the face over the other three was
\* renumbered
C9_Witness ==
    /\ Returned("create_mesh", "True")
    /\ last.arg.densities = <<1, 2, 2, 2>>
    /\ last.arg.mesh.triangles = <<<<2, 3, 4>>>>
    /\ mesh = [vertices |-> <<2, 3, 4>>, triangles |-> <<<<1, 2, 3>>>>]

\* C10: the host starts no import or processing worker while a worker
\* started earlier has not yet delivered its completion callback.
C10_AtMostOneRunInFlight ==
    [][ InFlight' > InFlight => InFlight = 0 ]_vars

\* C11: a stage (load_pointcloud, remove_outliers, estimate_normals,
\* downsample, create_mesh) that fails -- returns False or ends in an
\* exception of the library call or of the pruning -- leaves point_cloud,
\* normals and mesh as they were before the call.
C11_FailedStageLeavesStateUntouched ==
    [][ ( /\ last'.op \in {"load_pointcloud", "remove_outliers",
                           "estimate_normals", "downsample", "create_mesh"}
          /\ last'.ret \in {"False", "raise"} )
        => /\ point_cloud' = point_cloud
           /\ normals' = normals
           /\ mesh' = mesh ]_vars

\* C12: a metadata record, once written by save_results, is never modified
\* or overwritten: whenever a metadata file exists under a name before a step
\* and under the same name after it, its content is the same.
C12_MetadataNeverOverwritten ==
    [][ \A t \in Timestamps :
            (disk[t].metadata # None /\ disk'[t].metadata # None)
                => disk'[t].metadata = disk[t].metadata ]_vars

\* C13: a held mesh was reconstructed from the point cloud currently held,
\* so save_results never writes a mesh next to a cloud it was not derived
\* from.
C13_MeshFromHeldCloud == mesh # None => meshFromHeld

=============================================================================
